---- MODULE Spec2Model ----
(***************************************************************************)
(* Model of src/src/lib.rs: a fixed-size thread pool.  The caller's thread *)
(* builds the pool (ThreadPool::new), submits jobs (ThreadPool::execute)   *)
(* and releases it (Drop for ThreadPool).  Every worker thread runs the    *)
(* loop of Worker::new: lock the shared receiver, recv one message with    *)
(* the lock held, release the lock, then run the job or break.             *)
(***************************************************************************)
EXTENDS Integers, Sequences, FiniteSets, TLC

MaxSize == 2
MaxJobs == 3

\* What a submitted closure does when it is invoked: return, panic, or
\* never return.
JobKinds == {"ok", "panic", "hang"}

NoWorker == -1
NoJob == 0

VARIABLES
    size,       \* the argument of ThreadPool::new
    mainpc,     \* position of the caller's thread
    idx,        \* index of the running `for` loop of drop
    workers,    \* ThreadPool.workers: Vec<Worker>
    sender,     \* ThreadPool.sender is alive
    queue,      \* messages in the channel, oldest first
    lock,       \* id of the worker holding the Mutex around the receiver
    poisoned,   \* the Mutex is poisoned
    threads,    \* state of each spawned worker thread
    running,    \* the job each worker thread is executing
    calls,      \* history: the execute calls made, in order
    received,   \* history: the messages dequeued, in order, with the worker
    finished,   \* history: how often each job ran to completion
    sent,       \* history: how many Terminate messages drop has sent
    fatal       \* history: the call in which the caller's thread panicked

vars == <<size, mainpc, idx, workers, sender, queue, lock, poisoned,
          threads, running, calls, received, finished, sent, fatal>>

(***************************************************************************)
(* Messages and helpers                                                    *)
(***************************************************************************)
NewJob(j, k) == [type |-> "NewJob", job |-> j, kind |-> k]

Terminate == [type |-> "Terminate", job |-> NoJob, kind |-> "none"]

\* what `running` holds for a thread that is not inside job()
NoMsg == [type |-> "None", job |-> NoJob, kind |-> "none"]

\* mutant: the channel is a stack, the newest message is received first
Send_Front(q, m) == <<m>> \o q

\* mpsc::Sender::send on an unbounded channel: the message goes to the back.
Send(q, m) == Append(q, m)

\* mpsc::Receiver::recv: the message at the front is taken out.
Dequeue(q) == Tail(q)

\* mutant: the pool keeps a clone of the receiver, send never fails
ReceiverAlive_Always == TRUE

\* mutant: the receiver is gone as soon as one worker thread has ended
ReceiverAlive_AllAlive ==
    \A w \in DOMAIN threads : threads[w] \notin {"Terminated", "Panicked"}

\* The Arc<Mutex<Receiver>> lives as long as one worker thread holds a
\* clone of it: the clone of `new` is dropped when `new` returns, the clone
\* of a thread when its closure ends (break or panic).
ReceiverAlive == \E w \in DOMAIN threads : threads[w] \notin {"Terminated", "Panicked"}

\* mutant: the assertion lets 0 through
SizeOk_Any(n) == n >= 0

\* assert!(size > 0)
SizeOk(n) == n > 0

\* mutant: the loop runs over 1..size
NewWorkers_OffByOne(n) == [i \in 1..(n - 1) |-> [id |-> i - 1, thread |-> "Some"]]

\* for id in 0..size { workers.push(Worker::new(id, ..)) }
NewWorkers(n) == [i \in 1..n |-> [id |-> i - 1, thread |-> "Some"]]

\* mutant: the guard lives on into the match arm that runs the job
LockAfterRecv_Held(w) == w

\* The holder of the Mutex once `let message = ...recv().unwrap();` is
\* complete: the temporary MutexGuard is dropped at the end of the statement.
LockAfterRecv(w) == NoWorker

\* mutant: the receiver is shared without a Mutex
LockFree_NoMutex == TRUE

\* Mutex::lock blocks while another thread holds the guard.
LockFree == lock = NoWorker

\* mutant: drop lets go of the handle without waiting for the thread
ThreadEnded_NoWait(w) == TRUE

\* JoinHandle::join blocks until the thread has ended.
ThreadEnded(w) == threads[w] \in {"Terminated", "Panicked"}

\* mutant: the Terminate arm has no break
AfterTerminate_Loop == "Idle"

\* Message::Terminate => break
AfterTerminate == "Terminated"

\* mutant: the closure has no loop, the thread ends after one job
AfterJob_Exit == "Terminated"

\* the closure of the thread is a `loop`: after job() the next iteration
AfterJob == "Idle"

\* history only: every worker thread is inside job()
AllBusy == \A w \in DOMAIN threads : threads[w] = "Running"

\* history only: the worker threads that a panic has ended
Dead == {w \in DOMAIN threads : threads[w] = "Panicked"}

\* mutant: the first loop of drop runs once more than there are workers
TerminateCount_Extra == Len(workers) + 1

\* `for _ in &mut self.workers`: the iterations of the first loop of drop
TerminateCount == Len(workers)

\* mutant: the join loop starts right after the first send
AfterSend_Interleaved(i) == [pc |-> "drop_take", idx |-> 0]

\* where drop goes after the (i+1)-th send: the next send, or the second
\* loop once the first loop is over
AfterSend(i) ==
    IF i + 1 < TerminateCount
    THEN [pc |-> "drop_send", idx |-> i + 1]
    ELSE [pc |-> "drop_take", idx |-> 0]

\* mutant: the handle is borrowed, the slot stays full
SlotAfterTake_Full == "Some"

\* Option::take leaves None in the slot
SlotAfterTake == "None"

\* mutant: the result of join is ignored
JoinFails_Ignored(w) == FALSE

\* thread.join() is Err when the thread ended in a panic; unwrap panics
JoinFails(w) == threads[w] = "Panicked"

\* mutant: a rendezvous channel, send waits for a worker to be in recv
ExecuteReady_Rendezvous ==
    mainpc = "live" /\ \E w \in DOMAIN threads : threads[w] = "Acquiring"

\* mutant: the pool is shared, execute can be called once drop has sent
\* its Terminates
ExecuteReady_DuringDrop == mainpc \in {"live", "drop_take"}

\* the caller's execute returns as soon as send has returned
ExecuteReady == mainpc = "live"

(***************************************************************************)
(* Initial state: the caller is about to call ThreadPool::new(size).       *)
(***************************************************************************)
Init ==
    /\ size \in 0..MaxSize
    /\ mainpc = "new"
    /\ idx = 0
    /\ workers = <<>>
    /\ sender = FALSE
    /\ queue = <<>>
    /\ lock = NoWorker
    /\ poisoned = FALSE
    /\ threads = <<>>
    /\ running = <<>>
    /\ calls = <<>>
    /\ received = <<>>
    /\ finished = [j \in 1..MaxJobs |-> 0]
    /\ sent = 0
    /\ fatal = "none"

(***************************************************************************)
(* The caller's thread                                                     *)
(***************************************************************************)
\* ThreadPool::new
New ==
    /\ mainpc = "new"
    /\ IF SizeOk(size)
       THEN /\ mainpc' = "live"
            /\ sender' = TRUE
            /\ workers' = NewWorkers(size)
            /\ threads' = [w \in 0..(Len(NewWorkers(size)) - 1) |-> "Idle"]
            /\ running' = [w \in 0..(Len(NewWorkers(size)) - 1) |-> NoMsg]
            /\ UNCHANGED fatal
       ELSE /\ mainpc' = "panicked"
            /\ fatal' = "new"
            /\ UNCHANGED <<sender, workers, threads, running>>
    /\ UNCHANGED <<size, idx, queue, lock, poisoned, calls, received, finished,
                   sent>>

\* ThreadPool::execute with a closure of kind k; the job's number is the
\* number of the call.
Execute(k) ==
    /\ ExecuteReady
    /\ Len(calls) < MaxJobs
    /\ IF ReceiverAlive
       THEN /\ queue' = Send(queue, NewJob(Len(calls) + 1, k))
            /\ calls' = Append(calls, [kind |-> k, result |-> "Ok", busy |-> AllBusy,
                                        dead |-> Dead])
            /\ UNCHANGED <<mainpc, sender, fatal>>
       ELSE \* send returns Err, unwrap panics and the caller unwinds
            /\ calls' = Append(calls, [kind |-> k, result |-> "SendError",
                                        busy |-> AllBusy, dead |-> Dead])
            /\ mainpc' = "panicked"
            /\ fatal' = "execute"
            /\ sender' = FALSE
            /\ UNCHANGED queue
    /\ UNCHANGED <<size, idx, workers, lock, poisoned, threads, running,
                   received, finished, sent>>

\* The owner releases the pool: drop starts.
BeginDrop ==
    /\ mainpc = "live"
    /\ idx' = 0
    /\ IF Len(workers) = 0
       THEN mainpc' = "done" /\ sender' = FALSE
       ELSE mainpc' = "drop_send" /\ UNCHANGED sender
    /\ UNCHANGED <<size, workers, queue, lock, poisoned, threads, running,
                   calls, received, finished, sent, fatal>>

\* One iteration of `for _ in &mut self.workers { send(Terminate).unwrap() }`
DropSend ==
    /\ mainpc = "drop_send"
    /\ idx < TerminateCount
    /\ IF ReceiverAlive
       THEN /\ queue' = Send(queue, Terminate)
            /\ sent' = sent + 1
            /\ idx' = AfterSend(idx).idx
            /\ mainpc' = AfterSend(idx).pc
            /\ UNCHANGED <<sender, fatal>>
       ELSE /\ mainpc' = "panicked"
            /\ fatal' = "send"
            /\ sender' = FALSE
            /\ UNCHANGED <<queue, idx, sent>>
    /\ UNCHANGED <<size, workers, lock, poisoned, threads, running, calls,
                   received, finished>>

\* The position of drop after the iteration for workers[idx + 1] of the
\* second loop; after the last one drop returns and the fields are dropped.
AfterJoin ==
    /\ idx' = IF idx + 1 < Len(workers) THEN idx + 1 ELSE idx
    /\ mainpc' = IF idx + 1 < Len(workers) THEN "drop_take" ELSE "done"
    /\ sender' = IF idx + 1 < Len(workers) THEN sender ELSE FALSE

\* `if let Some(thread) = worker.thread.take()` for workers[idx + 1]
DropTake ==
    /\ mainpc = "drop_take"
    /\ idx < Len(workers)
    /\ IF workers[idx + 1].thread = "Some"
       THEN /\ workers' = [workers EXCEPT ![idx + 1].thread = SlotAfterTake]
            /\ mainpc' = "drop_join"
            /\ UNCHANGED <<idx, sender>>
       ELSE /\ AfterJoin
            /\ UNCHANGED workers
    /\ UNCHANGED <<size, queue, lock, poisoned, threads, running, calls,
                   received, finished, sent, fatal>>

\* thread.join().unwrap() for workers[idx + 1]
DropJoin ==
    /\ mainpc = "drop_join"
    /\ ThreadEnded(workers[idx + 1].id)
    /\ IF JoinFails(workers[idx + 1].id)
       THEN /\ mainpc' = "panicked"
            /\ fatal' = "join"
            /\ sender' = FALSE
            /\ UNCHANGED idx
       ELSE AfterJoin /\ UNCHANGED fatal
    /\ UNCHANGED <<size, workers, queue, lock, poisoned, threads, running,
                   calls, received, finished, sent>>

(***************************************************************************)
(* Worker thread w: the loop of Worker::new                                *)
(***************************************************************************)
\* receiver.lock().unwrap()
Lock(w) ==
    /\ w \in DOMAIN threads
    /\ threads[w] = "Idle"
    /\ LockFree
    /\ IF poisoned
       THEN threads' = [threads EXCEPT ![w] = "Panicked"] /\ UNCHANGED lock
       ELSE threads' = [threads EXCEPT ![w] = "Acquiring"] /\ lock' = w
    /\ UNCHANGED <<size, mainpc, idx, workers, sender, queue, poisoned,
                   running, calls, received, finished, sent, fatal>>

\* .recv().unwrap(), the end of the `let` statement and the `match`
Recv(w) ==
    /\ w \in DOMAIN threads
    /\ threads[w] = "Acquiring"
    /\ queue # <<>> \/ ~sender
    /\ IF queue = <<>>
       THEN \* every sender is gone: recv is Err, unwrap panics under the guard
            /\ threads' = [threads EXCEPT ![w] = "Panicked"]
            /\ poisoned' = TRUE
            /\ lock' = NoWorker
            /\ UNCHANGED <<queue, running, received>>
       ELSE /\ queue' = Dequeue(queue)
            /\ received' = Append(received, [worker |-> w, msg |-> Head(queue)])
            /\ lock' = IF lock = w THEN LockAfterRecv(w) ELSE lock
            /\ IF Head(queue).type = "NewJob"
               THEN /\ threads' = [threads EXCEPT ![w] = "Running"]
                    /\ running' = [running EXCEPT ![w] = Head(queue)]
               ELSE /\ threads' = [threads EXCEPT ![w] = AfterTerminate]
                    /\ UNCHANGED running
            /\ UNCHANGED poisoned
    /\ UNCHANGED <<size, mainpc, idx, workers, sender, calls, finished, sent,
                   fatal>>

\* job() returns
Finish(w) ==
    /\ w \in DOMAIN threads
    /\ threads[w] = "Running"
    /\ running[w].kind = "ok"
    /\ finished' = [finished EXCEPT ![running[w].job] = @ + 1]
    /\ threads' = [threads EXCEPT ![w] = AfterJob]
    /\ running' = [running EXCEPT ![w] = NoMsg]
    /\ UNCHANGED <<size, mainpc, idx, workers, sender, queue, lock, poisoned,
                   calls, received, sent, fatal>>

\* job() panics: the thread unwinds and ends
Fail(w) ==
    /\ w \in DOMAIN threads
    /\ threads[w] = "Running"
    /\ running[w].kind = "panic"
    /\ threads' = [threads EXCEPT ![w] = "Panicked"]
    /\ running' = [running EXCEPT ![w] = NoMsg]
    /\ UNCHANGED <<size, mainpc, idx, workers, sender, queue, lock, poisoned,
                   calls, received, finished, sent, fatal>>

Worker(w) == Lock(w) \/ Recv(w) \/ Finish(w) \/ Fail(w)

Caller == New \/ (\E k \in JobKinds : Execute(k)) \/ BeginDrop \/ DropSend
             \/ DropTake \/ DropJoin

Next == Caller \/ (\E w \in 0..(MaxSize - 1) : Worker(w))

Spec == Init /\ [][Next]_vars

\* The scheduler runs every thread that can take a step; the caller is free
\* to stop calling execute and to keep the pool for ever, but once it has
\* called new or drop, that call goes on.
FairSpec ==
    /\ Spec
    /\ WF_vars(New)
    /\ WF_vars(DropSend)
    /\ WF_vars(DropTake)
    /\ WF_vars(DropJoin)
    /\ \A w \in 0..(MaxSize - 1) : WF_vars(Worker(w))

(***************************************************************************)
(* Observations used by the properties                                     *)
(***************************************************************************)
Exited(w) == threads[w] \in {"Terminated", "Panicked"}

AllExited == \A w \in DOMAIN threads : Exited(w)

\* how often job j was handed to a worker
StartCount(j) ==
    Cardinality({i \in 1..Len(received) :
                    received[i].msg.type = "NewJob" /\ received[i].msg.job = j})

\* how often job j sits in the channel
QueuedCount(j) ==
    Cardinality({i \in 1..Len(queue) :
                    queue[i].type = "NewJob" /\ queue[i].job = j})

Submitted(j) == j <= Len(calls) /\ calls[j].result = "Ok"

NoJobFails == \A j \in 1..Len(calls) : calls[j].kind # "panic"

(***************************************************************************)
(* Properties                                                              *)
(***************************************************************************)

\* C1: once drop has returned, and no submitted job fails, every job that
\* was submitted has been handed to a worker exactly once and has run to
\* completion exactly once.
C1_ExactlyOnce ==
    (mainpc = "done" /\ NoJobFails) =>
        \A j \in 1..Len(calls) :
            /\ calls[j].result = "Ok"
            /\ StartCount(j) = 1
            /\ finished[j] = 1

\* three jobs were shared between two workers and drop has returned
C1_Witness ==
    /\ mainpc = "done"
    /\ size = 2
    /\ Len(calls) = 3
    /\ \E a, b \in 1..Len(received) :
          /\ received[a].msg.type = "NewJob"
          /\ received[b].msg.type = "NewJob"
          /\ received[a].worker # received[b].worker

\* Job j is owed a run: it was enqueued, it completes when run, and at most
\* `panics` of the jobs up to it panic and at most `hangs` never return.
\* Once true of a job this stays true, as `calls` only grows.
Owed(j, panics, hangs) ==
    /\ Submitted(j)
    /\ calls[j].kind = "ok"
    /\ Cardinality({k \in 1..j : calls[k].kind = "panic"}) <= panics
    /\ Cardinality({k \in 1..j : calls[k].kind = "hang"}) <= hangs

\* C2: under fair scheduling a submitted job is eventually run to
\* completion when it and the jobs submitted before it complete, whatever
\* the workers were doing when it was submitted: again and again, every
\* such job submitted so far has been run.
C2_EveryJobRuns ==
    []<>(\A j \in 1..MaxJobs : Owed(j, 0, 0) => finished[j] = 1)

\* a job submitted while every worker was inside a job has run
C2_Witness ==
    \E j \in 1..Len(calls) :
        /\ calls[j].busy
        /\ calls[j].result = "Ok"
        /\ Len(calls) > size
        /\ finished[j] = 1

\* C3: a release that begins with no job ever submitted ends: every worker
\* consumes a Terminate and exits, and drop returns.
C3_EmptyPoolShutdown ==
    (mainpc = "drop_send" /\ calls = <<>>)
        ~> (/\ mainpc = "done"
            /\ \A w \in DOMAIN threads :
                  /\ threads[w] = "Terminated"
                  /\ \E i \in 1..Len(received) :
                        received[i].worker = w /\ received[i].msg.type = "Terminate")

\* a pool of two workers was released without any job and drop has returned
C3_Witness ==
    /\ mainpc = "done"
    /\ calls = <<>>
    /\ size = 2
    /\ Len(received) = 2

\* C4: when drop has returned, every worker thread has ended, none is
\* inside a job and every job that was handed to a worker has completed.
C4_ReleaseBlocks ==
    mainpc = "done" =>
        /\ \A w \in DOMAIN threads : Exited(w) /\ running[w] = NoMsg
        /\ \A j \in 1..Len(calls) : StartCount(j) = finished[j]

\* drop has returned after a job had been run
C4_Witness ==
    /\ mainpc = "done"
    /\ Len(calls) = 1
    /\ finished[1] = 1

\* C5: with size 0 the constructor panics: no pool, no channel, no thread.
C5_SizeZeroFatal ==
    size = 0 =>
        /\ mainpc \in {"new", "panicked"}
        /\ workers = <<>>
        /\ DOMAIN threads = {}
        /\ ~sender
        /\ queue = <<>>
        /\ calls = <<>>

C5_Witness == size = 0 /\ mainpc = "panicked"

\* C6: an execute call made when every worker thread has ended panics at
\* the call site and puts nothing in the channel.
C6_ExecuteFailsWithoutReceiver ==
    [][(Len(calls') = Len(calls) + 1 /\ AllExited) =>
          /\ mainpc' = "panicked"
          /\ calls'[Len(calls')].result = "SendError"
          /\ queue' = queue]_vars

\* the only worker was killed by a job and the next execute panicked
C6_Witness ==
    /\ mainpc = "panicked"
    /\ calls # <<>>
    /\ calls[Len(calls)].result = "SendError"
    /\ AllExited
    /\ \E w \in DOMAIN threads : threads[w] = "Panicked"

\* C7: while the pool is live an execute call can always complete, also
\* when every worker is inside a job and jobs are queued already; with a
\* worker alive it returns normally and its only effect is one NewJob
\* message at the back of the channel.
C7_ExecuteNeverBlocks ==
    /\ [](mainpc = "live" /\ Len(calls) < MaxJobs
            => ENABLED (\E k \in JobKinds : Execute(k)))
    /\ [][(Len(calls') = Len(calls) + 1 /\ ~AllExited) =>
             /\ mainpc = "live" /\ mainpc' = "live"
             /\ Len(queue') = Len(queue) + 1
             /\ queue' = Append(queue, queue'[Len(queue')])
             /\ queue'[Len(queue')].type = "NewJob"
             /\ queue'[Len(queue')].job = Len(calls')
             /\ UNCHANGED <<threads, running, lock, finished, received>>]_vars

\* an execute call returned while every worker was inside a job and another
\* job was waiting in the channel
C7_Witness ==
    /\ mainpc = "live"
    /\ size > 0
    /\ AllBusy
    /\ Len(queue) >= 2
    /\ calls[Len(calls)].busy
    /\ calls[Len(calls)].result = "Ok"

\* C8: once the pool is built, its collection holds exactly `size` workers,
\* with the ids 0..size-1, in every state.
C8_WorkerCountFixed ==
    mainpc \notin {"new"} /\ size > 0 =>
        /\ Len(workers) = size
        /\ \A i \in 1..Len(workers) : workers[i].id = i - 1
        /\ DOMAIN threads = 0..(size - 1)

\* jobs were submitted, one failed on a worker, another worker was told to
\* terminate by release: the collection still has `size` workers
C8_Witness ==
    /\ size = 2
    /\ Len(workers) = 2
    /\ calls # <<>>
    /\ \E w \in DOMAIN threads : threads[w] = "Panicked"
    /\ \E w \in DOMAIN threads : threads[w] = "Terminated"
    /\ \E j \in 1..Len(calls) : finished[j] = 1

\* C9: a worker that is inside a job does not hold the lock on the receiver.
C9_NoLockWhileRunning ==
    \A w \in DOMAIN threads : threads[w] = "Running" => lock # w

\* two workers are inside a job at the same time: the second one dequeued
\* its job while the first was running
C9_Witness ==
    \E v, w \in DOMAIN threads :
        /\ v # w
        /\ threads[v] = "Running"
        /\ threads[w] = "Running"
        /\ lock = NoWorker

\* C10: at most one worker at a time is in recv with the lock held, and a
\* submitted job is in the channel or was handed to one worker, never both
\* and never twice.
C10_OneReceiver ==
    /\ Cardinality({w \in DOMAIN threads : threads[w] = "Acquiring"}) <= 1
    /\ \A w \in DOMAIN threads : threads[w] = "Acquiring" <=> lock = w
    /\ \A j \in 1..Len(calls) :
          Submitted(j) => QueuedCount(j) + StartCount(j) = 1
    /\ Cardinality({i \in 1..Len(received) : received[i].msg.type = "Terminate"})
         + Cardinality({i \in 1..Len(queue) : queue[i].type = "Terminate"})
           <= Len(workers)

\* one worker is in recv, the other is blocked in lock, and a message has
\* been handed out before
C10_Witness ==
    /\ \E v, w \in DOMAIN threads :
          /\ threads[v] = "Acquiring"
          /\ lock = v
          /\ threads[w] = "Idle"
    /\ received # <<>>

\* how many Terminate messages worker w has consumed
TermReceivedBy(w) ==
    Cardinality({i \in 1..Len(received) :
                    received[i].worker = w /\ received[i].msg.type = "Terminate"})

TermReceived ==
    Cardinality({i \in 1..Len(received) : received[i].msg.type = "Terminate"})

TermQueued ==
    Cardinality({i \in 1..Len(queue) : queue[i].type = "Terminate"})

\* the first loop of drop has been left, normally or by a panic
FirstLoopLeft == mainpc \in {"drop_take", "drop_join", "done"} \/ fatal \in {"send", "join"}

\* C11 as stated: release sends exactly one Terminate per worker, never
\* more and never fewer.
C11_Original ==
    /\ sent <= Len(workers)
    /\ FirstLoopLeft => sent = Len(workers)

\* C11 as amended: release never sends more Terminates than there are
\* workers, and exactly that many whenever its first loop completes; it
\* sends fewer only when a send panics because every worker thread has
\* ended after a job failure.  Each Terminate is consumed at most once, no
\* worker consumes two, and when release has returned every worker has
\* consumed exactly one and the channel is empty.
C11_TerminatePerWorker ==
    /\ sent <= Len(workers)
    /\ (mainpc \in {"drop_take", "drop_join", "done"} \/ fatal = "join")
          => sent = Len(workers)
    /\ fatal = "send" => sent < Len(workers) /\ AllExited /\ Dead # {}
    /\ TermReceived + TermQueued = sent
    /\ \A w \in DOMAIN threads : TermReceivedBy(w) <= 1
    /\ mainpc = "done" =>
          /\ \A w \in DOMAIN threads : TermReceivedBy(w) = 1
          /\ queue = <<>>

\* one of two workers was killed by a job, the other consumed the first
\* Terminate, and the second send panicked
C11_Witness ==
    /\ fatal = "send"
    /\ size = 2
    /\ sent = 1
    /\ TermReceived = 1

AllJobsOk == \A j \in 1..Len(calls) : calls[j].kind = "ok"

\* C12: no handle is taken and no worker is joined before every Terminate
\* has been sent; and under fair scheduling a release that begins when all
\* submitted jobs are of the completing kind returns, with every worker
\* ended by exactly one Terminate and every submitted job completed.
C12_TwoPassRelease ==
    /\ [](\A i \in 1..Len(workers) :
            (workers[i].thread = "None" \/ mainpc \in {"drop_take", "drop_join"})
                => sent = Len(workers))
    /\ (mainpc = "drop_send" /\ AllJobsOk)
          ~> (/\ mainpc = "done"
              /\ \A w \in DOMAIN threads :
                    threads[w] = "Terminated" /\ TermReceivedBy(w) = 1
              /\ \A j \in 1..Len(calls) : finished[j] = 1)

\* release began with jobs submitted, and has returned after both workers
\* had run some of them
C12_Witness ==
    /\ mainpc = "done"
    /\ size = 2
    /\ sent = 2
    /\ Len(calls) = 2
    /\ \E a, b \in 1..Len(received) :
          /\ received[a].msg.type = "NewJob"
          /\ received[b].msg.type = "NewJob"
          /\ received[a].worker # received[b].worker

\* the worker threads that have not ended
Live == {w \in DOMAIN threads : ~Exited(w)}

\* C13: a panic inside a job ends the thread that ran it and nothing else:
\* the other threads, the caller, the channel and the lock are untouched
\* and one worker fewer is alive; the Mutex is never poisoned or left
\* locked by the dead thread; and in a pool of two or more a completing job
\* queued with at most that one failing job before it is still run.
C13_JobFailureIsLocal ==
    /\ [](~poisoned /\ \A w \in DOMAIN threads : threads[w] = "Panicked" => lock # w)
    /\ [][\A w \in DOMAIN threads :
            (threads[w] = "Running" /\ threads'[w] = "Panicked") =>
                /\ \A v \in DOMAIN threads : v # w => threads'[v] = threads[v]
                /\ Cardinality(Live') = Cardinality(Live) - 1
                /\ UNCHANGED <<mainpc, fatal, sender, queue, lock, workers>>]_vars
    /\ []<>(size >= 2 => \A j \in 1..MaxJobs : Owed(j, 1, 0) => finished[j] = 1)

\* a job submitted after a worker had been killed by a panic has been run
\* by another worker, and the caller goes on
C13_Witness ==
    /\ mainpc = "live"
    /\ \E j \in 1..Len(calls) :
          /\ calls[j].dead # {}
          /\ finished[j] = 1
    /\ Cardinality(Live) = size - 1

\* C14: drop never returns normally when a worker thread was ended by a
\* panic; the join of such a worker panics out of drop, and the workers
\* after it in the collection keep their handles: they are not joined.
C14_JoinFailureFatal ==
    /\ [](mainpc = "done" => Dead = {})
    /\ [](fatal = "join" =>
            /\ mainpc = "panicked"
            /\ threads[workers[idx + 1].id] = "Panicked"
            /\ \A i \in 1..Len(workers) :
                  workers[i].thread = (IF i <= idx + 1 THEN "None" ELSE "Some"))
    /\ [][(/\ mainpc = "drop_join"
           /\ threads[workers[idx + 1].id] = "Panicked"
           /\ mainpc' # mainpc)
             => (mainpc' = "panicked" /\ fatal' = "join" /\ workers' = workers)]_vars

\* the first worker was killed by a job; its join panicked and the second
\* worker, which has ended normally, was never joined
C14_Witness ==
    /\ fatal = "join"
    /\ size = 2
    /\ idx = 0
    /\ threads[0] = "Panicked"
    /\ threads[1] = "Terminated"
    /\ workers[2].thread = "Some"

\* the message of the step, when the step is a dequeue by worker w
JustReceived(w, type) ==
    /\ Len(received') = Len(received) + 1
    /\ received'[Len(received')].worker = w
    /\ received'[Len(received')].msg.type = type
    /\ received'[Len(received')].msg = Head(queue)

\* the transitions of the state machine as the claim lists them
ListedTransition(w) ==
    \/ threads[w] = "Idle" /\ threads'[w] = "Acquiring"
    \/ threads[w] = "Acquiring" /\ threads'[w] = "Running" /\ JustReceived(w, "NewJob")
    \/ threads[w] = "Running" /\ threads'[w] = "Idle"
    \/ threads[w] = "Acquiring" /\ threads'[w] = "Terminated" /\ JustReceived(w, "Terminate")

\* C15 as stated: a worker makes the listed transitions and no other.
C15_Original ==
    [][\A w \in DOMAIN threads :
          threads'[w] # threads[w] => ListedTransition(w)]_vars

\* C15 as amended: a worker makes the listed transitions and one more,
\* Running -> Failed when the job it runs panics; Terminated and Failed are
\* both absorbing, and only a worker in Acquiring dequeues a message.
C15_WorkerStateMachine ==
    [][/\ \A w \in DOMAIN threads :
            threads'[w] # threads[w] =>
                \/ ListedTransition(w)
                \/ /\ threads[w] = "Running"
                   /\ running[w].kind = "panic"
                   /\ threads'[w] = "Panicked"
       /\ \A w \in DOMAIN threads :
            threads[w] \in {"Terminated", "Panicked"} =>
                /\ threads'[w] = threads[w]
                /\ lock' # w
                /\ running'[w] = NoMsg
       /\ Len(received') > Len(received) =>
            threads[received'[Len(received')].worker] = "Acquiring"]_vars

\* one worker has run a job, gone round the loop and left it on Terminate;
\* the other was ended by the panic of its job
C15_Witness ==
    \E v, w \in DOMAIN threads :
        /\ threads[w] = "Terminated"
        /\ TermReceivedBy(w) = 1
        /\ \E i \in 1..Len(received) :
              /\ received[i].worker = w
              /\ received[i].msg.type = "NewJob"
              /\ finished[received[i].msg.job] = 1
        /\ threads[v] = "Panicked"
        /\ \E i \in 1..Len(received) :
              received[i].worker = v /\ received[i].msg.kind = "panic"

\* the numbers of the jobs in a sequence of messages, in order
RECURSIVE JobsOf(_)
JobsOf(q) ==
    IF q = <<>> THEN <<>>
    ELSE IF Head(q).type = "NewJob"
         THEN <<Head(q).job>> \o JobsOf(Tail(q))
         ELSE JobsOf(Tail(q))

Increasing(s) == \A a, b \in 1..Len(s) : a < b => s[a] < s[b]

\* C16: jobs are dequeued in the order of their execute calls: the jobs
\* handed out so far, followed by the jobs still in the channel, are in
\* submission order.
C16_DequeueInSendOrder ==
    Increasing(JobsOf([i \in 1..Len(received) |-> received[i].msg]) \o JobsOf(queue))

\* job 1 was dequeued first and is still running on one worker while job 2,
\* dequeued after it by the other, has already finished
C16_Witness ==
    /\ Len(received) >= 2
    /\ received[1].msg.job = 1
    /\ received[2].msg.job = 2
    /\ received[1].worker # received[2].worker
    /\ threads[received[1].worker] = "Running"
    /\ running[received[1].worker].job = 1
    /\ calls[1].kind = "ok"
    /\ finished[2] = 1

\* C17: a worker inside a job that never returns stays there, and drop does
\* not return while it does; in a pool of two or more a completing job
\* queued with at most that one never-returning job before it is still run.
C17_HangOccupiesOneWorker ==
    /\ []((\E w \in DOMAIN threads : running[w].kind = "hang") => mainpc # "done")
    /\ [][\A w \in DOMAIN threads :
            running[w].kind = "hang" =>
                threads'[w] = "Running" /\ running'[w] = running[w]]_vars
    /\ []<>(size >= 2 => \A j \in 1..MaxJobs : Owed(j, 0, 1) => finished[j] = 1)

\* one worker is inside a never-returning job; the other has run a job
\* submitted later and has terminated; drop is waiting in the join of the
\* hung worker
C17_Witness ==
    /\ mainpc = "drop_join"
    /\ \E v, w \in DOMAIN threads :
          /\ running[w].kind = "hang"
          /\ workers[idx + 1].id = w
          /\ threads[v] = "Terminated"
          /\ \E j \in 1..Len(calls) : j > running[w].job /\ finished[j] = 1

\* the slots of the first n workers are empty, the others are full
TakenUpTo(n) ==
    \A i \in 1..Len(workers) :
        workers[i].thread = (IF i <= n THEN "None" ELSE "Some")

\* C18: every slot is full until the second loop of drop reaches its
\* worker and empty from then on; a slot changes only once, from full to
\* empty, in the take of that loop, and a join always follows a take that
\* found the slot full.
C18_HandleTakenOnce ==
    /\ []((mainpc \in {"live", "drop_send"} \/ fatal \in {"execute", "send"})
            => TakenUpTo(0))
    /\ [](mainpc = "drop_take" => TakenUpTo(idx))
    /\ [](mainpc = "drop_join" => TakenUpTo(idx + 1))
    /\ [](mainpc = "done" => TakenUpTo(Len(workers)))
    /\ [][\A i \in 1..Len(workers) :
            workers'[i].thread # workers[i].thread =>
                /\ workers[i].thread = "Some"
                /\ workers'[i].thread = "None"
                /\ mainpc = "drop_take"
                /\ i = idx + 1
                /\ mainpc' = "drop_join"]_vars
    /\ [][(mainpc # "drop_join" /\ mainpc' = "drop_join") =>
            (workers[idx + 1].thread = "Some" /\ workers'[idx + 1].thread = "None")]_vars

\* the first worker has been joined and its slot is empty, the second loop
\* is about to take the handle of the second worker, whose slot is full
C18_Witness ==
    /\ mainpc = "drop_take"
    /\ size = 2
    /\ idx = 1
    /\ workers[1].thread = "None"
    /\ workers[2].thread = "Some"

\* every message handed out so far, then every message still in the channel
AllMessages == [i \in 1..Len(received) |-> received[i].msg] \o queue

\* C19: over the whole life of the channel every NewJob precedes every
\* Terminate, so once a worker has consumed a Terminate no job is waiting
\* in the channel.
C19_JobsBeforeTerminates ==
    /\ \A a, b \in 1..Len(AllMessages) :
          (a < b /\ AllMessages[a].type = "Terminate")
              => AllMessages[b].type = "Terminate"
    /\ TermReceived > 0 => \A j \in 1..Len(calls) : QueuedCount(j) = 0
    /\ sent > 0 => mainpc # "live"

\* release has begun; a worker has dequeued a job and, right after it, the
\* first Terminate, while the second Terminate is still in the channel
C19_Witness ==
    /\ size = 2
    /\ TermQueued = 1
    /\ \E i \in 1..Len(received) :
          /\ i + 1 = Len(received)
          /\ received[i].msg.type = "NewJob"
          /\ received[i + 1].msg.type = "Terminate"
          /\ received[i].worker = received[i + 1].worker

\* C20: before release has sent a Terminate no worker has left its loop,
\* and a worker thread is dead only when a job panicked on it; an execute
\* call fails only when every worker thread has ended, so a call made on a
\* live pool with a worker left returns normally with its job enqueued.
C20_ExecuteSucceedsWhileAlive ==
    /\ [](sent = 0 => \A w \in DOMAIN threads : threads[w] # "Terminated")
    /\ [](\A w \in DOMAIN threads :
            threads[w] = "Panicked" =>
                \E i \in 1..Len(received) :
                    /\ received[i].worker = w
                    /\ received[i].msg.kind = "panic"
                    /\ \A n \in (i + 1)..Len(received) : received[n].worker # w)
    /\ [][Len(calls') = Len(calls) + 1 =>
            /\ calls'[Len(calls')].result = "SendError" => AllExited
            /\ (mainpc = "live" /\ Cardinality(Dead) < size) =>
                  /\ calls'[Len(calls')].result = "Ok"
                  /\ mainpc' = "live"
                  /\ queue' = Append(queue, NewJob(Len(calls'), calls'[Len(calls')].kind))]_vars

\* one of two workers has been killed by a job; an execute call made after
\* that has returned normally and its job is in the channel
C20_Witness ==
    /\ mainpc = "live"
    /\ size = 2
    /\ Cardinality(Dead) = 1
    /\ calls # <<>>
    /\ calls[Len(calls)].dead # {}
    /\ calls[Len(calls)].result = "Ok"
    /\ QueuedCount(Len(calls)) = 1

====
